---- MODULE Spec2Model ----
(***************************************************************************)
(* Model of the Qwen3-TTS model lifecycle manager                          *)
(* (backend/app/model_manager.py, class Qwen3TTSModelManager) as used by   *)
(* the serving process (backend/app/main.py).                              *)
(*                                                                         *)
(* The manager is one process-wide object (model_manager) that is called   *)
(* from two threads: the event-loop thread, which runs the request         *)
(* handlers, and the worker thread that asyncio.to_thread uses for the     *)
(* startup pre-warm.  The manager takes no lock.  A call is cut into steps *)
(* at the places where it calls out of the manager (logging I/O,           *)
(* from_pretrained, torch), which is where the interpreter can hand the    *)
(* processor to the other thread.                                          *)
(***************************************************************************)
EXTENDS Integers, FiniteSets, Sequences, TLC

\* Bounds of the model: the number of Qwen3TTSModel.from_pretrained and of
\* Qwen3TTSTokenizer.from_pretrained invocations in a run.
MaxLoads == 2

MaxTokenizerLoads == 1

\* Bound of the serving process: the number of synthesis requests in a run.
MaxRequests == 2

\* Bound of the device: its memory counters go up to this many GiB.
MaxGiB == 2

\* Bounds of the audio buffers: their numbers of frames and of channels.
MaxFrames == 2

MaxChannels == 2

\* Bound of the duration check: the sample rates go up to this many Hz, the
\* buffers up to two seconds of it.
MaxRate == 4

\* Bound of the host: its number of processors.
MaxCores == 4

Threads == {"loop", "worker"}

Roles == {"custom_voice", "voice_design", "voice_clone"}

Sizes == {"0.6B", "1.7B"}

MODEL_SIZES ==
  [s \in Sizes |->
     IF s = "0.6B"
     THEN [r \in Roles |->
             CASE r = "custom_voice" -> "Qwen/Qwen3-TTS-12Hz-0.6B-CustomVoice"
               [] r = "voice_design" -> "Qwen/Qwen3-TTS-12Hz-0.6B-VoiceDesign"
               [] r = "voice_clone"  -> "Qwen/Qwen3-TTS-12Hz-0.6B-Base"]
     ELSE [r \in Roles |->
             CASE r = "custom_voice" -> "Qwen/Qwen3-TTS-12Hz-1.7B-CustomVoice"
               [] r = "voice_design" -> "Qwen/Qwen3-TTS-12Hz-1.7B-VoiceDesign"
               [] r = "voice_clone"  -> "Qwen/Qwen3-TTS-12Hz-1.7B-Base"]]

\* line 30: os.environ.get("MODEL_SIZE", "1.7B"), with MODEL_SIZE not set
DEFAULT_MODEL_SIZE == "1.7B"

TOKENIZER_MODEL == "Qwen/Qwen3-TTS-Tokenizer-12Hz"

\* The values the callers of this model pass as model_type: the role the
\* pre-warm and the custom-voice endpoint name, the role the voice-clone
\* endpoint names (voice_design is handled by the same code as voice_clone),
\* the key the tokenizer is cached under, and a name no profile defines.
ModelTypes == {"custom_voice", "voice_clone", "tokenizer", "speaker_encoder"}

\* The values a caller can pass as size: the two profiles and an unknown one.
SizeArgs == Sizes \cup {"3B"}

\* The synthesis endpoints (main.py 151, 209, 258); each loads the role of
\* its name.
Endpoints == {"custom_voice", "voice_design", "voice_clone"}

\* The exceptions model.generate_* can raise (an out-of-memory or device
\* error is a RuntimeError, a rejected language or speaker a ValueError).
GenerateErrors == {"RuntimeError", "ValueError"}

\* The exceptions from_pretrained can raise (a missing or unreachable
\* checkpoint is an OSError, a bad configuration a ValueError).
LoaderErrors == {"OSError", "ValueError"}

VARIABLES
  models,        \* self.models: the dict of cached handles, keyed by model_type
  model_size,    \* self.model_size: the active profile
  cuda,          \* device_manager.is_cuda_available()
  nextId,        \* identity of the next model from_pretrained builds
  nextTokId,     \* identity of the next tokenizer from_pretrained builds
  pc,            \* per thread: where in its current call it is
  call,          \* per thread: the call it is in, or made last
  local,         \* per thread: the locals model_id and model/tokenizer
  ret,           \* per thread: how its last call ended
  fpCount,       \* history, per role: from_pretrained invocations made by the plain misses
                 \*   that overlap the ones now in flight
  runs,          \* history, per role: from_pretrained invocations since the role was last
                 \*   invalidated (unload, clear_cache, profile switch, forced reload)
  handed,        \* history, per role: the handles load_model returned since the entry
                 \*   of the role was last evicted or replaced by a forced reload
  pendingReload, \* history: the roles no load_model call has completed for since the
                 \*   last profile switch
  req,           \* per synthesis request: its endpoint, where its handler is, its answer
  health,        \* a health request: none pending, or one waiting for the event loop
  shutdown,      \* shutdown_event has run
  gpu,           \* the memory counters of CUDA device 0, in MiB: total_memory,
                 \*   memory_reserved, memory_allocated
  memory_gb,     \* the last result of get_available_memory_gb()
  deps,          \* which optional dependencies (pydub, librosa) can be imported
  files,         \* the temporary files created and the destinations written
  load_args,     \* the arguments of the load_audio call
  loaded,        \* the result of the load_audio call
  save_args,     \* the arguments of the save_audio call
  saved,         \* the result of the save_audio call
  validate_args, \* the arguments of the validate_audio_duration call
  validated,     \* the result of the validate_audio_duration call
  host,          \* os.cpu_count() and the torch tuning calls that fail on this host
  constructed    \* how Qwen3TTSModelManager() ended, and the torch settings it made

manager == <<models, model_size, cuda, nextId, nextTokId, pc, call, local, ret,
             fpCount, runs, handed, pendingReload>>

serve == <<req, health>>

device == <<gpu, memory_gb>>

codec == <<deps, files, load_args, loaded, save_args, saved>>

checks == <<validate_args, validated>>

tuning == <<host, constructed>>

\* The state the library functions (device, codec) work on.
library == <<device, codec, checks, tuning>>

\* The variables outside the manager.
outside == <<serve, shutdown, library>>

vars == <<manager, outside>>

hist == <<fpCount, runs, handed, pendingReload>>

----------------------------------------------------------------------------
\* Values

NoHandle == [id |-> 0, model_id |-> "", eval |-> FALSE]

NoCall == [op |-> "none", arg |-> "", force |-> FALSE]

NoLocal == [model_id |-> "", h |-> NoHandle]

\* No get_model_info() result.
NoInfo == [loaded_models |-> {}, model_size |-> ""]

\* How a call ended: by a return or a raise, at which source line, with which
\* value (a handle, or the dict of get_model_info), and whether it called
\* torch.cuda.empty_cache() on the way.
NoRet ==
  [kind |-> "none", exc |-> "", line |-> 0, val |-> NoHandle, emptied |-> FALSE, info |-> NoInfo]

\* The call returned h at source line l.
Return(h, l) ==
  [kind |-> "return", exc |-> "", line |-> l, val |-> h, emptied |-> FALSE, info |-> NoInfo]

\* The call raised e at source line l.
Raise(e, l) ==
  [kind |-> "raise", exc |-> e, line |-> l, val |-> NoHandle, emptied |-> FALSE, info |-> NoInfo]

\* The object Qwen3TTSModel.from_pretrained / Qwen3TTSTokenizer.from_pretrained
\* builds: a new object, made from the checkpoint named mid, in training mode.
FromPretrained(n, mid) == [id |-> n, model_id |-> mid, eval |-> FALSE]

\* model.eval()
Eval(h) == [h EXCEPT !.eval = TRUE]

\* model_type in self.models
Cached(m, k) == k \in DOMAIN m

\* self.models[k] = h
Insert(m, k, h) == [x \in (DOMAIN m) \cup {k} |-> IF x = k THEN h ELSE m[x]]

\* del self.models[k]
Delete(m, k) == [x \in (DOMAIN m) \ {k} |-> m[x]]

\* self.models.clear()
Cleared(m) == [x \in {} |-> NoHandle]

\* A synthesis request that has not been made.
NoReq ==
  [endpoint |-> "", stage |-> "none", status |-> 0, exc |-> "", line |-> 0, h |-> NoHandle,
   upload |-> [container |-> "", samplerate |-> 0, channels |-> 0, rows |-> <<>>]]

\* The thread is between two calls.
Idle(t) == pc[t] = "idle"

Start(t, op, arg, force, where) ==
  /\ call' = [call EXCEPT ![t] = [op |-> op, arg |-> arg, force |-> force]]
  /\ pc' = [pc EXCEPT ![t] = where]
  /\ ret' = [ret EXCEPT ![t] = NoRet]

Finish(t, r) ==
  /\ pc' = [pc EXCEPT ![t] = "idle"]
  /\ ret' = [ret EXCEPT ![t] = r]
  /\ call' = [call EXCEPT ![t] = NoCall]

\* A plain (not forced) load_model(r) of thread u that missed and has not returned.
InFlightMiss(u, r) ==
  /\ pc[u] \in {"lm_resolved", "lm_loaded"}
  /\ call[u].arg = r
  /\ ~call[u].force

----------------------------------------------------------------------------
\* model_manager = Qwen3TTSModelManager() (model_manager.py 227), no call made
ManagerInit ==
  /\ models = [x \in {} |-> NoHandle]
  /\ model_size \in Sizes
  /\ cuda \in BOOLEAN
  /\ nextId = 1
  /\ nextTokId = 1
  /\ pc = [t \in Threads |-> "idle"]
  /\ call = [t \in Threads |-> NoCall]
  /\ local = [t \in Threads |-> NoLocal]
  /\ ret = [t \in Threads |-> NoRet]
  /\ fpCount = [r \in Roles |-> 0]
  /\ runs = [r \in Roles |-> 0]
  /\ handed = [r \in Roles |-> {}]
  /\ pendingReload = {}

\* No request has reached the application, which has not been shut down.
NoRequests ==
  /\ req = [q \in 1..MaxRequests |-> NoReq]
  /\ health = "none"
  /\ shutdown = FALSE

\* No get_available_memory_gb() result.
NoMemory == [called |-> FALSE, gb |-> 0]

\* The device functions have not been called.
DeviceUnread ==
  /\ gpu = [total |-> 0, reserved |-> 0, allocated |-> 0]
  /\ memory_gb = NoMemory

\* A numpy array of audio: its number of dimensions and its frames, each
\* frame the sequence of its channels' samples (one sample when ndim is 1).
Array(n, r) == [ndim |-> n, rows |-> r]

NoArray == Array(1, <<>>)

\* The content of an audio file or byte string: a WAV container with its
\* header fields and frames, or bytes that are no audio.
AudioFile(c, sr, ch, r) == [container |-> c, samplerate |-> sr, channels |-> ch, rows |-> r]

NoFile == AudioFile("", 0, 0, <<>>)

\* sample_rate / output_path not passed (None)
NoRate == [given |-> FALSE, hz |-> 0]

Rate(r) == [given |-> TRUE, hz |-> r]

NoPath == ""

\* The result of a codec function: the value returned (an array and its
\* rate, a byte string, a path) or the exception raised, with its source
\* line and the names its message lists.
NoResult ==
  [kind |-> "none", exc |-> "", line |-> 0, names |-> {}, audio |-> NoArray, sr |-> 0,
   bytes |-> NoFile, path |-> NoPath]

NoLoadArgs == [kind |-> "", array |-> NoArray, exists |-> FALSE, file |-> NoFile, sample_rate |-> NoRate]

NoSaveArgs == [audio_data |-> NoArray, sample_rate |-> 0, format |-> "", output_path |-> NoPath]

NoFiles == [temp |-> 0, written |-> [p \in {} |-> NoFile]]

\* The codec functions have not been called.
CodecUnused ==
  /\ deps = [pydub |-> FALSE, librosa |-> FALSE]
  /\ files = NoFiles
  /\ load_args = NoLoadArgs
  /\ loaded = NoResult
  /\ save_args = NoSaveArgs
  /\ saved = NoResult

\* A number of seconds, as the fraction num/den.
Seconds(n, d) == [num |-> n, den |-> d]

NoValidateArgs == [len |-> 0, sample_rate |-> 0, min_duration |-> Seconds(0, 1)]

\* The result of validate_audio_duration: the boolean returned or the
\* exception raised.
NoVerdict == [kind |-> "none", exc |-> "", is_valid |-> FALSE]

\* validate_audio_duration has not been called.
Unvalidated ==
  /\ validate_args = NoValidateArgs
  /\ validated = NoVerdict

\* The tuning calls of enable_cpu_optimizations (device_utils.py 78, 80, 85).
TuningCalls == {"set_num_threads", "set_num_interop_threads", "mkl"}

\* How the construction of the manager ended, and the settings made on the
\* way (0 and FALSE: not set).
NotConstructed ==
  [kind |-> "none", exc |-> "", line |-> 0, num_threads |-> 0, num_interop_threads |-> 0,
   mkl |-> FALSE]

\* A host where every tuning call works; the construction is not looked at.
Untuned ==
  /\ host = [cores |-> 1, failing |-> {}]
  /\ constructed = NotConstructed

Init ==
  /\ ManagerInit
  /\ NoRequests
  /\ DeviceUnread
  /\ CodecUnused
  /\ Unvalidated
  /\ Untuned

----------------------------------------------------------------------------
\* load_model (model_manager.py 88-142)

\* The cache test of line 99 left out: every call takes the load path.
IsHit_Never(m, k, force) == FALSE

\* The cache test of line 99 without its force_reload part.
IsHit_IgnoreForce(m, k, force) == Cached(m, k)

\* line 99: model_type in self.models and not force_reload
IsHit(m, k, force) == Cached(m, k) /\ ~force

\* The validation of line 200 left out: every size is taken.
SizeKnown_Any(size) == TRUE

\* size in MODEL_SIZES: the test of line 200, and whether the subscript
\* MODEL_SIZES[size] of lines 103 and 188 finds a profile
SizeKnown(size) == size \in DOMAIN MODEL_SIZES

\* line 103: model_type in MODEL_SIZES[self.model_size]
RoleDefined(size, k) == k \in DOMAIN MODEL_SIZES[size]

\* The identifier taken from AVAILABLE_MODELS (line 43), the mapping of the
\* default profile, instead of the active one.
Resolve_Default(size, k) == MODEL_SIZES["1.7B"][k]

\* line 106: model_id = MODEL_SIZES[self.model_size][model_type]
Resolve(size, k) == MODEL_SIZES[size][k]

\* The model cached as from_pretrained built it, without the call of line 122.
LoadedModel_NoEval(n, mid) == FromPretrained(n, mid)

\* lines 113-122: model = Qwen3TTSModel.from_pretrained(model_id, ...); model.eval()
LoadedModel(n, mid) == Eval(FromPretrained(n, mid))

\* The except branch dropping the entry of the model that failed to load.
ModelsAfterLoadFailure_Evict(m, k) == IF Cached(m, k) THEN Delete(m, k) ELSE m

\* The except branch caching a placeholder for the model that failed to load.
ModelsAfterLoadFailure_Poison(m, k) == Insert(m, k, NoHandle)

\* lines 140-142: the except branch logs and re-raises; self.models is not touched
ModelsAfterLoadFailure(m, k) == m

\* lines 137-139: self.models[model_type] = model
ModelsAfterLoad(m, k, h) == Insert(m, k, h)

\* History kept at the start of a load_model call: a forced reload starts a
\* new run of the role.
LoadModelCallHist(t, mt, force) ==
  /\ runs' = IF mt \in Roles /\ force THEN [runs EXCEPT ![mt] = 0] ELSE runs
  /\ UNCHANGED <<fpCount, handed>>

\* History kept when thread t leaves load_model(mt) with n from_pretrained
\* invocations counted: the count is dropped with the last overlapping miss.
FpCountLeaving(t, mt, n) ==
  IF \E u \in Threads \ {t} : InFlightMiss(u, mt)
  THEN [fpCount EXCEPT ![mt] = n] ELSE [fpCount EXCEPT ![mt] = 0]

\* lines 99-107: the cache test, the role test (a KeyError when the active
\* size is no key of MODEL_SIZES) and the resolution of model_id
LoadModelCall(t, mt, force) ==
  /\ Idle(t)
  /\ LoadModelCallHist(t, mt, force)
  /\ IF IsHit(models, mt, force)
     THEN /\ Start(t, "load_model", mt, force, "lm_hit")
          /\ UNCHANGED <<local, pendingReload>>
     ELSE IF ~SizeKnown(model_size)
     THEN /\ Finish(t, Raise("KeyError", 103))
          /\ pendingReload' = pendingReload \ {mt}
          /\ UNCHANGED local
     ELSE IF ~RoleDefined(model_size, mt)
     THEN /\ Finish(t, Raise("ValueError", 104))
          /\ pendingReload' = pendingReload \ {mt}
          /\ UNCHANGED local
     ELSE /\ Start(t, "load_model", mt, force, "lm_resolved")
          /\ local' = [local EXCEPT ![t] = [model_id |-> Resolve(model_size, mt), h |-> NoHandle]]
          /\ UNCHANGED pendingReload
  /\ UNCHANGED <<models, model_size, cuda, nextId, nextTokId>>

\* lines 100-101: logger.info(...); return self.models[model_type]
LoadModelReturnCached(t) ==
  /\ pc[t] = "lm_hit"
  /\ LET mt == call[t].arg IN
       /\ IF Cached(models, mt)
          THEN /\ Finish(t, Return(models[mt], 101))
               /\ handed' = IF mt \in Roles
                            THEN [handed EXCEPT ![mt] = @ \cup {models[mt]}] ELSE handed
          ELSE /\ Finish(t, Raise("KeyError", 101))
               /\ UNCHANGED handed
       /\ pendingReload' = pendingReload \ {mt}
  /\ UNCHANGED <<models, model_size, cuda, nextId, nextTokId, local, fpCount, runs>>

\* lines 109-122 and 140-142: from_pretrained and eval, or the exception re-raised
LoadModelFromPretrained(t) ==
  /\ pc[t] = "lm_resolved"
  /\ nextId <= MaxLoads
  /\ nextId' = nextId + 1
  /\ LET mt == call[t].arg IN
       /\ runs' = [runs EXCEPT ![mt] = @ + 1]
       /\ \/ /\ pc' = [pc EXCEPT ![t] = "lm_loaded"]
             /\ local' = [local EXCEPT ![t].h = LoadedModel(nextId, local[t].model_id)]
             /\ fpCount' = IF call[t].force THEN fpCount ELSE [fpCount EXCEPT ![mt] = @ + 1]
             /\ UNCHANGED <<models, ret, call, pendingReload>>
          \/ /\ \E e \in LoaderErrors : Finish(t, Raise(e, 142))
             /\ fpCount' = IF call[t].force THEN fpCount ELSE FpCountLeaving(t, mt, fpCount[mt] + 1)
             /\ models' = ModelsAfterLoadFailure(models, mt)
             /\ local' = [local EXCEPT ![t] = NoLocal]
             /\ pendingReload' = pendingReload \ {mt}
  /\ UNCHANGED <<model_size, cuda, nextTokId, handed>>

\* lines 137-139: the insertion into the cache and the return
LoadModelInsert(t) ==
  /\ pc[t] = "lm_loaded"
  /\ LET mt == call[t].arg
         h == local[t].h IN
       /\ models' = ModelsAfterLoad(models, mt, h)
       /\ Finish(t, Return(h, 139))
       /\ handed' = [handed EXCEPT ![mt] = IF call[t].force THEN {h} ELSE @ \cup {h}]
       /\ fpCount' = IF call[t].force THEN fpCount ELSE FpCountLeaving(t, mt, fpCount[mt])
       /\ pendingReload' = pendingReload \ {mt}
  /\ local' = [local EXCEPT ![t] = NoLocal]
  /\ UNCHANGED <<model_size, cuda, nextId, nextTokId, runs>>

----------------------------------------------------------------------------
\* load_tokenizer (model_manager.py 144-170)

\* line 154: "tokenizer" in self.models and not force_reload
LoadTokenizerCall(t, force) ==
  /\ Idle(t)
  /\ Start(t, "load_tokenizer", "tokenizer", force,
           IF IsHit(models, "tokenizer", force) THEN "tk_hit" ELSE "tk_resolved")
  /\ UNCHANGED <<models, model_size, cuda, nextId, nextTokId, local, hist>>

\* lines 155-156: logger.info(...); return self.models["tokenizer"]
LoadTokenizerReturnCached(t) ==
  /\ pc[t] = "tk_hit"
  /\ IF Cached(models, "tokenizer")
     THEN Finish(t, Return(models["tokenizer"], 156))
     ELSE Finish(t, Raise("KeyError", 156))
  /\ UNCHANGED <<models, model_size, cuda, nextId, nextTokId, local, hist>>

\* lines 160-170: from_pretrained, the insertion and the return, or the
\* exception re-raised
LoadTokenizerFromPretrained(t) ==
  /\ pc[t] = "tk_resolved"
  /\ nextTokId <= MaxTokenizerLoads
  /\ nextTokId' = nextTokId + 1
  /\ \/ LET h == FromPretrained(nextTokId, TOKENIZER_MODEL) IN
          /\ models' = ModelsAfterLoad(models, "tokenizer", h)
          /\ Finish(t, Return(h, 167))
     \/ /\ \E e \in LoaderErrors : Finish(t, Raise(e, 170))
        /\ models' = ModelsAfterLoadFailure(models, "tokenizer")
  /\ UNCHANGED <<model_size, cuda, nextId, local, hist>>

----------------------------------------------------------------------------
\* get_model_info (model_manager.py 180-191)

\* Only the model roles reported, the tokenizer entry left out.
LoadedModelsReported_RolesOnly(m) == (DOMAIN m) \cap Roles

\* line 183: list(self.models.keys())
LoadedModelsReported(m) == DOMAIN m

\* lines 182-191: the dict returned, of which the entries that depend on the
\* state of the manager are kept
ModelInfo(m, size) == [loaded_models |-> LoadedModelsReported(m), model_size |-> size]

\* line 188 subscripts MODEL_SIZES with the active size.
GetModelInfo(t) ==
  /\ Idle(t)
  /\ IF SizeKnown(model_size)
     THEN Finish(t, [Return(NoHandle, 191) EXCEPT !.info = ModelInfo(models, model_size)])
     ELSE Finish(t, Raise("KeyError", 188))
  /\ UNCHANGED <<models, model_size, cuda, nextId, nextTokId, local, hist>>

----------------------------------------------------------------------------
\* clear_cache (model_manager.py 218-223)

\* line 220: self.models.clear()
ModelsAfterClear(m) == Cleared(m)

\* torch.cuda.empty_cache() called without the test of line 221.
EmptyCacheCalled_Always(c) == TRUE

\* lines 221-222: if device_manager.is_cuda_available(): torch.cuda.empty_cache()
EmptyCacheCalled(c) == c

\* History kept when every entry is evicted.
InvalidateAllHist ==
  /\ runs' = [r \in Roles |-> 0]
  /\ handed' = [r \in Roles |-> {}]
  /\ UNCHANGED fpCount

ClearCache(t) ==
  /\ Idle(t)
  /\ models' = ModelsAfterClear(models)
  /\ Finish(t, [Return(NoHandle, 223) EXCEPT !.emptied = EmptyCacheCalled(cuda)])
  /\ InvalidateAllHist
  /\ UNCHANGED <<model_size, cuda, nextId, nextTokId, local, pendingReload>>

----------------------------------------------------------------------------
\* unload_model (model_manager.py 212-216)

\* unload_model clearing the whole dict instead of deleting one key.
ModelsAfterUnload_All(m, k) == IF Cached(m, k) THEN Cleared(m) ELSE m

\* lines 214-215: if model_type in self.models: del self.models[model_type]
ModelsAfterUnload(m, k) == IF Cached(m, k) THEN Delete(m, k) ELSE m

UnloadModel(t, mt) ==
  /\ Idle(t)
  /\ models' = ModelsAfterUnload(models, mt)
  /\ Finish(t, Return(NoHandle, IF Cached(models, mt) THEN 216 ELSE 214))
  /\ runs' = IF mt \in Roles THEN [runs EXCEPT ![mt] = 0] ELSE runs
  /\ handed' = IF mt \in Roles THEN [handed EXCEPT ![mt] = {}] ELSE handed
  /\ UNCHANGED <<model_size, cuda, nextId, nextTokId, local, fpCount, pendingReload>>

----------------------------------------------------------------------------
\* set_model_size (model_manager.py 193-206)

\* lines 200-205: the validation, the comparison with the active size and,
\* when they differ, clear_cache()
SetModelSizeCall(t, size) ==
  /\ Idle(t)
  /\ IF ~SizeKnown(size)
     THEN /\ Finish(t, Raise("ValueError", 201))
          /\ UNCHANGED <<models, runs, handed, fpCount>>
     ELSE IF size /= model_size
     THEN /\ Start(t, "set_model_size", size, FALSE, "sz_cleared")
          /\ models' = ModelsAfterClear(models)
          /\ InvalidateAllHist
     ELSE /\ Finish(t, Return(NoHandle, 203))
          /\ UNCHANGED <<models, runs, handed, fpCount>>
  /\ UNCHANGED <<model_size, cuda, nextId, nextTokId, local, pendingReload>>

\* line 206: self.model_size = size, after the clear_cache() of line 205
SetModelSizeAssign(t) ==
  /\ pc[t] = "sz_cleared"
  /\ model_size' = call[t].arg
  /\ Finish(t, [Return(NoHandle, 206) EXCEPT !.emptied = EmptyCacheCalled(cuda)])
  /\ pendingReload' = Roles
  /\ UNCHANGED <<models, cuda, nextId, nextTokId, local, fpCount, runs, handed>>

----------------------------------------------------------------------------
\* The callers (main.py)

\* main.py 64: await asyncio.to_thread(model_manager.load_tokenizer), the
\* first thing background_model_load does
PrewarmTokenizer ==
  /\ ret["worker"] = NoRet
  /\ LoadTokenizerCall("worker", FALSE)

\* main.py 66: await asyncio.to_thread(model_manager.load_model, "custom_voice"),
\* reached only when load_tokenizer returned (68-69: an exception ends the task)
PrewarmModel ==
  /\ ret["worker"].kind = "return"
  /\ ret["worker"].line \in {156, 167}
  /\ LoadModelCall("worker", "custom_voice", FALSE)

\* The serving process: the event-loop thread, whose handlers call the
\* manager directly (main.py 79, 172, 226, 293) as any caller of its
\* interface can, and the pre-warm task in its worker thread, with no lock
\* between them.
Next ==
  \/ \E mt \in ModelTypes, force \in BOOLEAN : LoadModelCall("loop", mt, force) /\ UNCHANGED outside
  \/ \E force \in BOOLEAN : LoadTokenizerCall("loop", force) /\ UNCHANGED outside
  \/ ClearCache("loop") /\ UNCHANGED outside
  \/ \E mt \in ModelTypes : UnloadModel("loop", mt) /\ UNCHANGED outside
  \/ \E size \in SizeArgs : SetModelSizeCall("loop", size) /\ UNCHANGED outside
  \/ GetModelInfo("loop") /\ UNCHANGED outside
  \/ PrewarmTokenizer /\ UNCHANGED outside
  \/ PrewarmModel /\ UNCHANGED outside
  \/ \E t \in Threads : LoadModelReturnCached(t) /\ UNCHANGED outside
  \/ \E t \in Threads : LoadModelFromPretrained(t) /\ UNCHANGED outside
  \/ \E t \in Threads : LoadModelInsert(t) /\ UNCHANGED outside
  \/ \E t \in Threads : LoadTokenizerReturnCached(t) /\ UNCHANGED outside
  \/ \E t \in Threads : LoadTokenizerFromPretrained(t) /\ UNCHANGED outside
  \/ \E t \in Threads : SetModelSizeAssign(t) /\ UNCHANGED outside

Spec == Init /\ [][Next]_vars

\* The manager called from one thread only: every call returns before the
\* next one starts.
NextSeq ==
  \/ \E mt \in ModelTypes, force \in BOOLEAN : LoadModelCall("loop", mt, force) /\ UNCHANGED outside
  \/ \E force \in BOOLEAN : LoadTokenizerCall("loop", force) /\ UNCHANGED outside
  \/ ClearCache("loop") /\ UNCHANGED outside
  \/ \E mt \in ModelTypes : UnloadModel("loop", mt) /\ UNCHANGED outside
  \/ \E size \in SizeArgs : SetModelSizeCall("loop", size) /\ UNCHANGED outside
  \/ GetModelInfo("loop") /\ UNCHANGED outside
  \/ LoadModelReturnCached("loop") /\ UNCHANGED outside
  \/ LoadModelFromPretrained("loop") /\ UNCHANGED outside
  \/ LoadModelInsert("loop") /\ UNCHANGED outside
  \/ LoadTokenizerReturnCached("loop") /\ UNCHANGED outside
  \/ LoadTokenizerFromPretrained("loop") /\ UNCHANGED outside
  \/ SetModelSizeAssign("loop") /\ UNCHANGED outside

SpecSeq == Init /\ [][NextSeq]_vars

\* Qwen3TTSModelManager(model_size) (model_manager.py 76-78): the argument,
\* or the value of the environment variable MODEL_SIZE it defaults to (line
\* 30), is stored as it is.
InitConstructed ==
  /\ \E size \in SizeArgs : model_size = size
  /\ cuda \in BOOLEAN
  /\ models = [x \in {} |-> NoHandle]
  /\ nextId = 1
  /\ nextTokId = 1
  /\ pc = [t \in Threads |-> "idle"]
  /\ call = [t \in Threads |-> NoCall]
  /\ local = [t \in Threads |-> NoLocal]
  /\ ret = [t \in Threads |-> NoRet]
  /\ fpCount = [r \in Roles |-> 0]
  /\ runs = [r \in Roles |-> 0]
  /\ handed = [r \in Roles |-> {}]
  /\ pendingReload = {}
  /\ NoRequests
  /\ DeviceUnread
  /\ CodecUnused
  /\ Unvalidated
  /\ Untuned

\* A manager constructed with any size, then called from one thread.
SpecConstructed == InitConstructed /\ [][NextSeq]_vars

----------------------------------------------------------------------------
\* DeviceManager.get_available_memory_gb (device_utils.py 96-105)

\* 1024**3 bytes, in the MiB the counters are kept in.
GiB == 1024

\* The values of a memory counter: whole numbers of GiB, in MiB.
MemoryValues == {k * GiB : k \in 0..MaxGiB}

\* x / (1024**3), for the whole numbers of GiB the counters take
ToGB(x) == x \div GiB

\* The result returned as it is, not floored.
Floor0_None(x) == x

\* line 105: max(0, available)
Floor0(x) == IF 0 >= x THEN 0 ELSE x

\* lines 98-105
AvailableMemoryGb(c, g) ==
  IF ~c
  THEN 0
  ELSE LET reserved == ToGB(g.reserved)
           allocated == ToGB(g.allocated)
           available == ToGB(g.total) - (reserved + allocated)
       IN Floor0(available)

GetAvailableMemoryGb ==
  /\ ~memory_gb.called
  /\ memory_gb' = [called |-> TRUE, gb |-> AvailableMemoryGb(cuda, gpu)]
  /\ UNCHANGED <<manager, serve, shutdown, tuning, gpu, codec, checks>>

\* Any device, with or without CUDA, with any values of its counters.
InitDevice ==
  /\ ManagerInit
  /\ NoRequests
  /\ gpu \in [total : MemoryValues, reserved : MemoryValues, allocated : MemoryValues]
  /\ memory_gb = NoMemory
  /\ CodecUnused
  /\ Unvalidated
  /\ Untuned

NextDevice == GetAvailableMemoryGb

SpecDevice == InitDevice /\ [][NextDevice]_vars

----------------------------------------------------------------------------
\* DeviceManager.enable_cpu_optimizations (device_utils.py 73-90), called by
\* Qwen3TTSModelManager.__init__ (model_manager.py 76-86)

\* line 77: os.cpu_count() or 1 (os.cpu_count() is None, here 0, when the
\* number of processors cannot be determined)
CpuCount(h) == IF h.cores = 0 THEN 1 ELSE h.cores

\* line 80: max(1, cpu_count // 2)
InteropThreads(cpu_count) == IF 1 >= cpu_count \div 2 THEN 1 ELSE cpu_count \div 2

\* The tuning calls that stand in a try whose except clause passes (79-82,
\* 84-88); torch.set_num_threads (78) stands outside of both.
Guarded == {"set_num_interop_threads", "mkl"}

\* lines 75-90: nothing is done on a CUDA host; on a CPU host the calls are
\* made in turn, and the failure of a call outside a try ends the method
EnableCpuOptimizations(c, h) ==
  IF c
  THEN [NotConstructed EXCEPT !.kind = "return", !.line = 75]
  ELSE IF "set_num_threads" \in h.failing /\ "set_num_threads" \notin Guarded
  THEN [NotConstructed EXCEPT !.kind = "raise", !.exc = "RuntimeError", !.line = 78]
  ELSE [NotConstructed EXCEPT
          !.kind = "return",
          !.line = 90,
          !.num_threads = IF "set_num_threads" \in h.failing THEN 0 ELSE CpuCount(h),
          !.num_interop_threads =
             IF "set_num_interop_threads" \in h.failing THEN 0 ELSE InteropThreads(CpuCount(h)),
          !.mkl = "mkl" \notin h.failing]

\* model_manager.py 76-86: __init__ calls enable_cpu_optimizations when CUDA
\* is not available (83-84); an exception of it leaves no manager.
Construct ==
  /\ constructed = NotConstructed
  /\ constructed' = EnableCpuOptimizations(cuda, host)
  /\ UNCHANGED <<manager, serve, shutdown, device, codec, checks, host>>

\* Any host: with or without CUDA, with any number of processors, with any
\* of the tuning calls failing.
InitTuning ==
  /\ ManagerInit
  /\ model_size = DEFAULT_MODEL_SIZE
  /\ NoRequests
  /\ DeviceUnread
  /\ CodecUnused
  /\ validate_args = NoValidateArgs
  /\ validated = NoVerdict
  /\ host \in [cores : 0..MaxCores, failing : SUBSET TuningCalls]
  /\ constructed = NotConstructed

NextTuning == Construct

SpecTuning == InitTuning /\ [][NextTuning]_vars

----------------------------------------------------------------------------
\* AudioProcessor (audio_utils.py): the audio values

RECURSIVE Factorial(_)
Factorial(n) == IF n <= 1 THEN 1 ELSE n * Factorial(n - 1)

\* Samples are floating-point amplitudes; the model keeps them in fixed
\* point, as whole numbers of 1/Resolution, fine enough for the mean of up to
\* MaxChannels samples to be exact.
Resolution == Factorial(MaxChannels)

\* The amplitudes of the samples given to the codec.
Amplitudes == {-1, 1, 3}

Samples == {a * Resolution : a \in Amplitudes}

\* The buffers of n frames of c channels.
Rows(n, c) == [1..n -> [1..c -> Samples]]

SampleRates == {8000, 16000}

\* The sample_rate arguments of load_audio: None or a target rate.
RateArgs == {NoRate, Rate(16000)}

\* A file (or byte string) that is no audio.
Garbage == AudioFile("garbage", 0, 0, <<>>)

RECURSIVE Sum(_)
Sum(frame) == IF frame = <<>> THEN 0 ELSE Head(frame) + Sum(Tail(frame))

\* A codec function returned the array a with rate sr (load_audio, line 137).
Loaded(a, sr) == [NoResult EXCEPT !.kind = "return", !.line = 137, !.audio = a, !.sr = sr]

\* A codec function raised e at line l, its message listing names.
CodecError(e, l, names) == [NoResult EXCEPT !.kind = "raise", !.exc = e, !.line = l, !.names = names]

----------------------------------------------------------------------------
\* AudioProcessor.load_audio (audio_utils.py 86-141)

\* sf.read: the frames and the rate of the header; one-dimensional for a
\* file of one channel, (frames, channels) otherwise; an error for bytes that
\* are no audio (raised at line l).
SfRead(f, l) ==
  IF f.container /= "WAV"
  THEN CodecError("RuntimeError", l, {})
  ELSE Loaded(Array(IF f.channels = 1 THEN 1 ELSE 2, f.rows), f.samplerate)

\* lines 101-120: the array and the rate the source gives
Source(a) ==
  IF a.kind = "ndarray"
  THEN IF ~a.sample_rate.given
       THEN CodecError("ValueError", 104, {})
       ELSE Loaded(a.array, a.sample_rate.hz)
  ELSE IF a.kind = "bytes"
  THEN SfRead(a.file, 111)
  ELSE IF a.kind = "str"
  THEN IF ~a.exists
       THEN CodecError("FileNotFoundError", 116, {})
       ELSE SfRead(a.file, 117)
  ELSE CodecError("TypeError", 120, {})

\* The first channel kept instead of the mean of the channels.
ToMono_FirstChannel(a) ==
  IF a.ndim > 1 THEN Array(1, [i \in 1..Len(a.rows) |-> <<a.rows[i][1]>>]) ELSE a

\* lines 123-124: if len(audio_data.shape) > 1: np.mean(audio_data, axis=1)
ToMono(a) ==
  IF a.ndim > 1
  THEN Array(1, [i \in 1..Len(a.rows) |-> <<Sum(a.rows[i]) \div Len(a.rows[i])>>])
  ELSE a

\* librosa.resample(audio_data, orig_sr, target_sr): ceil(n * target / orig)
\* samples; the model takes for each the input sample nearest before it.
Resample(a, orig, target) ==
  LET n == Len(a.rows)
      m == (n * target + orig - 1) \div orig
  IN Array(a.ndim, [k \in 1..m |-> a.rows[((k - 1) * orig) \div target + 1]])

\* lines 100-141; every exception is logged and re-raised as it is
LoadAudio(a, d) ==
  LET src == Source(a) IN
    IF src.kind = "raise"
    THEN src
    ELSE LET mono == ToMono(src.audio)
             want == a.sample_rate
         IN IF want.given /\ want.hz /= 0 /\ src.sr /= want.hz /\ d.librosa
            THEN Loaded(Resample(mono, src.sr, want.hz), want.hz)
            ELSE Loaded(mono, src.sr)

LoadAudioCall ==
  /\ load_args /= NoLoadArgs
  /\ loaded = NoResult
  /\ loaded' = LoadAudio(load_args, deps)
  /\ UNCHANGED <<manager, serve, shutdown, tuning, device, deps, files, load_args, save_args, saved, checks>>

\* The arguments of a load_audio call on an array, on a byte string or an
\* existing path with content f, and on a path that does not exist or a value
\* of another type.
ArraySource(a, sr) ==
  [kind |-> "ndarray", array |-> a, exists |-> FALSE, file |-> NoFile, sample_rate |-> sr]

FileSource(kind, f, sr) ==
  [kind |-> kind, array |-> NoArray, exists |-> kind = "str", file |-> f, sample_rate |-> sr]

NoSource(kind, sr) ==
  [kind |-> kind, array |-> NoArray, exists |-> FALSE, file |-> NoFile, sample_rate |-> sr]

\* The load_audio calls: every kind of source (an array of one or two
\* dimensions, a byte string, a path that exists or not, a value of another
\* type), with and without a target rate.
IsLoadArgs(a) ==
  \E sr \in RateArgs :
    \/ \E n \in 0..MaxFrames, c \in 1..MaxChannels, ndim \in {1, 2} :
         /\ ndim = 1 => c = 1
         /\ \E r \in Rows(n, c) : a = ArraySource(Array(ndim, r), sr)
    \/ \E kind \in {"bytes", "str"}, n \in 0..MaxFrames, c \in 1..MaxChannels, rate \in SampleRates :
         \E r \in Rows(n, c) : a = FileSource(kind, AudioFile("WAV", rate, c, r), sr)
    \/ \E kind \in {"bytes", "str"} : a = FileSource(kind, Garbage, sr)
    \/ \E kind \in {"str", "list"} : a = NoSource(kind, sr)

InitDecode ==
  /\ ManagerInit
  /\ model_size = DEFAULT_MODEL_SIZE
  /\ ~cuda
  /\ NoRequests
  /\ DeviceUnread
  /\ deps \in [pydub : {FALSE}, librosa : BOOLEAN]
  /\ files = NoFiles
  /\ IsLoadArgs(load_args)
  /\ loaded = NoResult
  /\ save_args = NoSaveArgs
  /\ saved = NoResult
  /\ Unvalidated
  /\ Untuned

NextDecode == LoadAudioCall

SpecDecode == InitDecode /\ [][NextDecode]_vars

----------------------------------------------------------------------------
\* AudioProcessor.save_audio (audio_utils.py 22-83)

\* line 18
SUPPORTED_FORMATS == {"wav", "mp3", "ogg"}

\* The format arguments: the supported names, one in capitals, one that is
\* not supported.
Formats == {"wav", "WAV", "mp3", "ogg", "flac"}

\* The output_path arguments: None or a path.
Destinations == {NoPath, "out.wav", "out.ogg"}

\* format.lower()
Lower(f) == IF f = "WAV" THEN "wav" ELSE f

\* Every format name accepted.
Supported_Any(f) == TRUE

\* line 40: format.lower() in AudioProcessor.SUPPORTED_FORMATS
Supported(f) == Lower(f) \in SUPPORTED_FORMATS

\* The container sf.write and AudioSegment.export give a file: the one named
\* by the format argument, or by the extension of the path.
ContainerOf(name) ==
  IF name \in {"wav", "out.wav"} THEN "WAV" ELSE IF name \in {"ogg", "out.ogg"} THEN "OGG" ELSE "MP3"

\* The samples as a 16-bit file holds them: amplitudes beyond full scale
\* (1.0) are not representable, the model clips them.
Pcm16(rows) ==
  [i \in 1..Len(rows) |->
     [c \in 1..Len(rows[i]) |->
        IF rows[i][c] > Resolution THEN Resolution
        ELSE IF rows[i][c] < -Resolution THEN -Resolution ELSE rows[i][c]]]

\* The file written without its last frame.
Encoded_Truncated(container, a, sr) ==
  AudioFile(container, sr, IF a.ndim = 1 THEN 1 ELSE Len(a.rows[1]),
            Pcm16(SubSeq(a.rows, 1, Len(a.rows) - 1)))

\* sf.write(file, audio_data, sample_rate): the header takes the rate and the
\* number of channels of the array (1 for shape (frames,)), the body its frames
Encoded(container, a, sr) ==
  AudioFile(container, sr, IF a.ndim = 1 THEN 1 ELSE Len(a.rows[1]), Pcm16(a.rows))

\* save_audio returned the path p (lines 48, 74) or the bytes b (lines 54, 79).
SavedPath(p, l) == [NoResult EXCEPT !.kind = "return", !.line = l, !.path = p]

SavedBytes(b, l) == [NoResult EXCEPT !.kind = "return", !.line = l, !.bytes = b]

\* The file at path p written with content f.
Written(fs, p, f) ==
  [fs EXCEPT !.written = [x \in (DOMAIN fs.written) \cup {p} |-> IF x = p THEN f ELSE fs.written[x]]]

\* The fallback call made without the destination.
FallbackArgs_NoDestination(a) == [a EXCEPT !.format = "wav", !.output_path = NoPath]

\* line 62: the arguments of the call made when pydub cannot be imported
FallbackArgs(a) == [a EXCEPT !.format = "wav"]

\* lines 40-83: the result and the files after the call; every exception of
\* the try block is logged and re-raised as it is
RECURSIVE SaveAudio(_, _, _)
SaveAudio(a, d, fs) ==
  IF ~Supported(a.format)
  THEN [res |-> CodecError("ValueError", 41, SUPPORTED_FORMATS), fs |-> fs]
  ELSE IF Lower(a.format) = "wav"
  THEN IF a.output_path /= NoPath
       THEN [res |-> SavedPath(a.output_path, 48),
             fs |-> Written(fs, a.output_path,
                            Encoded(ContainerOf(a.output_path), a.audio_data, a.sample_rate))]
       ELSE [res |-> SavedBytes(Encoded("WAV", a.audio_data, a.sample_rate), 54), fs |-> fs]
  ELSE IF Lower(a.format) \in {"mp3", "ogg"}
  THEN IF ~d.pydub
       THEN SaveAudio(FallbackArgs(a), d, fs)
       ELSE LET tmp == [fs EXCEPT !.temp = @ + 1]
                audio == Encoded(ContainerOf(Lower(a.format)), a.audio_data, a.sample_rate)
            IN IF a.output_path /= NoPath
               THEN [res |-> SavedPath(a.output_path, 74), fs |-> Written(tmp, a.output_path, audio)]
               ELSE [res |-> SavedBytes(audio, 79), fs |-> tmp]
  ELSE [res |-> [NoResult EXCEPT !.kind = "return", !.line = 79], fs |-> fs]

SaveAudioCall ==
  /\ save_args /= NoSaveArgs
  /\ saved = NoResult
  /\ LET r == SaveAudio(save_args, deps, files) IN
       /\ saved' = r.res
       /\ files' = r.fs
  /\ UNCHANGED <<manager, serve, shutdown, tuning, device, deps, load_args, loaded, save_args, checks>>

\* load_audio called, with no target rate, on the WAV that save_audio
\* returned as bytes or wrote to the path it returned.
LoadSavedCall ==
  /\ saved.kind = "return"
  /\ loaded = NoResult
  /\ LET f == IF saved.path = NoPath THEN saved.bytes ELSE files.written[saved.path] IN
       /\ f.container = "WAV"
       /\ load_args' = [kind |-> IF saved.path = NoPath THEN "bytes" ELSE "str", array |-> NoArray,
                        exists |-> saved.path /= NoPath, file |-> f, sample_rate |-> NoRate]
  /\ loaded' = LoadAudio(load_args', deps)
  /\ UNCHANGED <<manager, serve, shutdown, tuning, device, deps, files, save_args, saved, checks>>

\* The save_audio calls: a waveform as the handlers pass it (wavs[0], one-
\* dimensional), with every rate, format and destination.
IsSaveArgs(a) ==
  \E n \in 0..MaxFrames, sr \in SampleRates, f \in Formats, p \in Destinations :
    \E r \in Rows(n, 1) :
      a = [audio_data |-> Array(1, r), sample_rate |-> sr, format |-> f, output_path |-> p]

InitEncode ==
  /\ ManagerInit
  /\ model_size = DEFAULT_MODEL_SIZE
  /\ ~cuda
  /\ NoRequests
  /\ DeviceUnread
  /\ deps \in [pydub : BOOLEAN, librosa : {FALSE}]
  /\ files = NoFiles
  /\ load_args = NoLoadArgs
  /\ loaded = NoResult
  /\ IsSaveArgs(save_args)
  /\ saved = NoResult
  /\ Unvalidated
  /\ Untuned

NextEncode ==
  \/ SaveAudioCall
  \/ LoadSavedCall

SpecEncode == InitEncode /\ [][NextEncode]_vars

----------------------------------------------------------------------------
\* AudioProcessor.validate_audio_duration (audio_utils.py 171-190)

\* The min_duration arguments: the default 0.1, a half, the 1.0 of the
\* voice-clone endpoint (main.py 287) and the recommended 3 seconds.
MinDurations == {Seconds(1, 10), Seconds(1, 2), Seconds(1, 1), Seconds(3, 1)}

\* line 184: len(audio_data) / sample_rate, a true division
Duration(n, sr) == Seconds(n, sr)

\* The comparison made strict: a buffer of exactly the minimum is refused.
IsValid_Strict(duration, min) == duration.num * min.den > min.num * duration.den

\* line 185: duration >= min_duration
IsValid(duration, min) == duration.num * min.den >= min.num * duration.den

\* lines 184-190; the division by a sample rate of 0 raises
ValidateAudioDuration(a) ==
  IF a.sample_rate = 0
  THEN [NoVerdict EXCEPT !.kind = "raise", !.exc = "ZeroDivisionError"]
  ELSE [NoVerdict EXCEPT !.kind = "return",
                         !.is_valid = IsValid(Duration(a.len, a.sample_rate), a.min_duration)]

ValidateAudioDurationCall ==
  /\ validated = NoVerdict
  /\ validated' = ValidateAudioDuration(validate_args)
  /\ UNCHANGED <<manager, serve, shutdown, tuning, device, codec, validate_args>>

\* The validate_audio_duration calls: a buffer of up to two seconds at every
\* rate, with every minimum.
InitValidate ==
  /\ ManagerInit
  /\ model_size = DEFAULT_MODEL_SIZE
  /\ ~cuda
  /\ NoRequests
  /\ DeviceUnread
  /\ CodecUnused
  /\ \E sr \in 0..MaxRate, n \in 0..(2 * MaxRate), m \in MinDurations :
       validate_args = [len |-> n, sample_rate |-> sr, min_duration |-> m]
  /\ validated = NoVerdict
  /\ Untuned

NextValidate == ValidateAudioDurationCall

SpecValidate == InitValidate /\ [][NextValidate]_vars

----------------------------------------------------------------------------
\* The request handlers (main.py 84-326).  They are coroutines of the one
\* event loop: a handler runs on the event-loop thread from one await to the
\* next, and the only await of a synthesis handler is the read of the
\* uploaded reference audio (line 283).

\* The event-loop thread is not inside a handler: no handler is between its
\* load_model call and the end of its generate call.
LoopFree_Always == TRUE

LoopFree ==
  /\ Idle("loop")
  /\ \A q \in 1..MaxRequests : req[q].stage \notin {"loading", "generating"}

\* The except clauses of the handlers: custom-voice (201-206) and voice-clone
\* (321-326) answer a ValueError with 400 and anything else with 500,
\* voice-design (253-255) answers every exception with 500.
StatusOf(endpoint, exc) ==
  IF endpoint \in {"custom_voice", "voice_clone"} /\ exc = "ValueError" THEN 400 ELSE 500

\* The handler ends with an HTTPException for exc, raised at source line l.
Failed(q, exc, l) ==
  [req[q] EXCEPT !.stage = "done", !.status = StatusOf(req[q].endpoint, exc),
                 !.exc = exc, !.line = l, !.h = NoHandle]

\* A synthesis request reaches the application; its coroutine is scheduled.
\* Requests are numbered in the order in which the event loop starts their
\* handlers.
Arrive(q, e) ==
  /\ req[q].stage = "none"
  /\ \A o \in 1..(q - 1) : req[o].stage /= "none"
  /\ req' = [req EXCEPT ![q] = [NoReq EXCEPT !.endpoint = e, !.stage = "queued"]]
  /\ UNCHANGED <<manager, health>>

\* The handler calls model_manager.load_model(role) (172, 226, 293), on the
\* thread it runs on.
HandlerLoad(q) ==
  /\ LoadModelCall("loop", req[q].endpoint, FALSE)
  /\ req' = [req EXCEPT ![q].stage = "loading"]
  /\ UNCHANGED health

\* The event loop starts the handler.  custom-voice (162-172) checks the
\* voice and calls load_model; voice-design (220-226) calls load_model;
\* voice-clone (279-283) awaits the read of the upload.
HandlerStart(q) ==
  /\ req[q].stage = "queued"
  /\ \A o \in 1..(q - 1) : req[o].stage /= "queued"
  /\ LoopFree
  /\ \/ /\ req[q].endpoint = "custom_voice"
        /\ \/ HandlerLoad(q)
           \/ /\ req' = [req EXCEPT ![q] = Failed(q, "ValueError", 166)]
              /\ UNCHANGED <<manager, health>>
     \/ /\ req[q].endpoint = "voice_design"
        /\ HandlerLoad(q)
     \/ /\ req[q].endpoint = "voice_clone"
        /\ req' = [req EXCEPT ![q].stage = "reading"]
        /\ UNCHANGED <<manager, health>>

\* The reference audio a voice-clone request uploads: bytes that are no
\* audio, and mono recordings of no frame, of half a second and of one second
\* (at 2 Hz, to keep the buffers short).
ReferenceUploads ==
  {Garbage} \cup {AudioFile("WAV", 2, 1, [i \in 1..n |-> <<Resolution>>]) : n \in 0..2}

\* The duration check skipped: every reference audio is taken.
LongEnough_Any(audio, sr) == TRUE

\* line 287: AudioProcessor.validate_audio_duration(ref_audio_data, ref_sr, min_duration=1.0)
LongEnough(audio, sr) ==
  ValidateAudioDuration([len |-> Len(audio.rows), sample_rate |-> sr,
                         min_duration |-> Seconds(1, 1)]).is_valid

\* voice-clone after the await (283-293): the bytes read are decoded by
\* load_audio, whose exception the except clauses answer, the duration is
\* checked (ValueError when too short), then load_model is called.
HandlerAfterRead(q) ==
  /\ req[q].stage = "reading"
  /\ LoopFree
  /\ \E f \in ReferenceUploads :
       LET ref == LoadAudio(FileSource("bytes", f, NoRate), deps) IN
         IF ref.kind = "raise"
         THEN /\ req' = [req EXCEPT ![q] = [Failed(q, ref.exc, 284) EXCEPT !.upload = f]]
              /\ UNCHANGED <<manager, health>>
         ELSE IF ~LongEnough(ref.audio, ref.sr)
         THEN /\ req' = [req EXCEPT ![q] = [Failed(q, "ValueError", 288) EXCEPT !.upload = f]]
              /\ UNCHANGED <<manager, health>>
         ELSE /\ LoadModelCall("loop", req[q].endpoint, FALSE)
              /\ req' = [req EXCEPT ![q] = [@ EXCEPT !.stage = "loading", !.upload = f]]
              /\ UNCHANGED health

\* load_model has ended: the handler goes on to generate with the handle
\* returned (173-177), or its except clause answers the exception.
HandlerLoaded(q) ==
  /\ req[q].stage = "loading"
  /\ Idle("loop")
  /\ req' = [req EXCEPT ![q] =
               IF ret["loop"].kind = "return"
               THEN [@ EXCEPT !.stage = "generating", !.h = ret["loop"].val]
               ELSE Failed(q, ret["loop"].exc, ret["loop"].line)]
  /\ UNCHANGED <<manager, health>>

\* model.generate_* ends (176-199): the audio is encoded and answered with
\* 200, or the except clause answers the exception of generate.
HandlerGenerated(q) ==
  /\ req[q].stage = "generating"
  /\ \/ req' = [req EXCEPT ![q] = [@ EXCEPT !.stage = "done", !.status = 200, !.h = NoHandle]]
     \/ \E e \in GenerateErrors : req' = [req EXCEPT ![q] = Failed(q, e, 177)]
  /\ UNCHANGED <<manager, health>>

\* A health request reaches the application.
HealthArrive ==
  /\ health = "none"
  /\ health' = "waiting"
  /\ UNCHANGED <<manager, req>>

\* health_check (84-99), run by the event loop when it is free: it reads
\* model_manager.get_model_info() and answers; another health request can
\* follow.
HealthCheck ==
  /\ health = "waiting"
  /\ LoopFree
  /\ GetModelInfo("loop")
  /\ health' = "none"
  /\ UNCHANGED req

\* The serving process as main.py runs it: the handlers on the event-loop
\* thread and the pre-warm task in its worker thread.
NextServe ==
  \/ \E q \in 1..MaxRequests, e \in Endpoints : Arrive(q, e) /\ UNCHANGED <<shutdown, library>>
  \/ \E q \in 1..MaxRequests : HandlerStart(q) /\ UNCHANGED <<shutdown, library>>
  \/ \E q \in 1..MaxRequests : HandlerAfterRead(q) /\ UNCHANGED <<shutdown, library>>
  \/ \E q \in 1..MaxRequests : HandlerLoaded(q) /\ UNCHANGED <<shutdown, library>>
  \/ \E q \in 1..MaxRequests : HandlerGenerated(q) /\ UNCHANGED <<shutdown, library>>
  \/ HealthArrive /\ UNCHANGED <<shutdown, library>>
  \/ HealthCheck /\ UNCHANGED <<shutdown, library>>
  \/ PrewarmTokenizer /\ UNCHANGED outside
  \/ PrewarmModel /\ UNCHANGED outside
  \/ \E t \in Threads : LoadModelReturnCached(t) /\ UNCHANGED outside
  \/ \E t \in Threads : LoadModelFromPretrained(t) /\ UNCHANGED outside
  \/ \E t \in Threads : LoadModelInsert(t) /\ UNCHANGED outside
  \/ LoadTokenizerFromPretrained("worker") /\ UNCHANGED outside

\* main.py serves the manager of the module (model_manager.py 227), which is
\* constructed with the default profile.
InitServe == Init /\ model_size = DEFAULT_MODEL_SIZE

SpecServe == InitServe /\ [][NextServe]_vars

\* shutdown_event (main.py 75-79), run by the event loop once the handlers
\* have ended: model_manager.clear_cache().  The pre-warm task is not
\* awaited or cancelled, and a call handed to asyncio.to_thread runs in its
\* thread to its end.
ShutdownEvent ==
  /\ ~shutdown
  /\ LoopFree
  /\ ClearCache("loop")
  /\ shutdown' = TRUE
  /\ UNCHANGED <<serve, library>>

\* The life of the serving process: it serves as in NextServe until it is
\* shut down.  No handler is started afterwards, and the pre-warm task, a
\* coroutine of the event loop, hands no further call to a thread.
NextLifespan ==
  \/ ~shutdown /\ \E q \in 1..MaxRequests, e \in Endpoints : Arrive(q, e) /\ UNCHANGED <<shutdown, library>>
  \/ ~shutdown /\ \E q \in 1..MaxRequests : HandlerStart(q) /\ UNCHANGED <<shutdown, library>>
  \/ ~shutdown /\ \E q \in 1..MaxRequests : HandlerAfterRead(q) /\ UNCHANGED <<shutdown, library>>
  \/ ~shutdown /\ \E q \in 1..MaxRequests : HandlerLoaded(q) /\ UNCHANGED <<shutdown, library>>
  \/ ~shutdown /\ \E q \in 1..MaxRequests : HandlerGenerated(q) /\ UNCHANGED <<shutdown, library>>
  \/ ~shutdown /\ LoadModelReturnCached("loop") /\ UNCHANGED outside
  \/ ~shutdown /\ LoadModelFromPretrained("loop") /\ UNCHANGED outside
  \/ ~shutdown /\ LoadModelInsert("loop") /\ UNCHANGED outside
  \/ ShutdownEvent
  \/ ~shutdown /\ LoopFree /\ PrewarmTokenizer /\ UNCHANGED outside
  \/ ~shutdown /\ LoopFree /\ PrewarmModel /\ UNCHANGED outside
  \/ LoadTokenizerFromPretrained("worker") /\ UNCHANGED outside
  \/ LoadModelReturnCached("worker") /\ UNCHANGED outside
  \/ LoadModelFromPretrained("worker") /\ UNCHANGED outside
  \/ LoadModelInsert("worker") /\ UNCHANGED outside

SpecLifespan == InitServe /\ [][NextLifespan]_vars

----------------------------------------------------------------------------
\* Properties

\* C1: single-flight.  The plain load_model(r) calls that miss the cache while
\* another miss for the same role is in flight (the pre-warm load of
\* custom_voice in its worker thread and a request's load_model call) invoke
\* from_pretrained once between them.
C1_SingleFlight == \A r \in Roles : fpCount[r] <= 1

\* C2: every handle load_model(r) has handed to a caller, since the entry of r
\* was last evicted, is the handle cached for r: no caller holds a handle
\* different from the cached one.
C2_SameHandle ==
  \A r \in Roles : \A h \in handed[r] : Cached(models, r) /\ models[r] = h

\* C3 as stated: in a sequential run of load_model(r) calls with no unload,
\* clear_cache, profile switch or forced reload in between, from_pretrained
\* runs at most once for r.
C3_LoadRunsAtMostOnce == \A r \in Roles : runs[r] <= 1

\* C3 as amended: in such a run at most one load succeeds.  Once a call has
\* returned a handle for r, that handle is the cache entry of r, every later
\* call returns it, and no plain call is in the load path.
C3_AtMostOneSuccessfulLoad ==
  \A r \in Roles :
    /\ Cardinality(handed[r]) <= 1
    /\ handed[r] /= {} => Cached(models, r) /\ handed[r] = {models[r]}
    /\ \A t \in Threads : InFlightMiss(t, r) => handed[r] = {}

\* A second plain call has returned the cached handle of the first.
C3_Witness ==
  /\ ret["loop"].kind = "return"
  /\ ret["loop"].line = 101
  /\ handed["custom_voice"] = {ret["loop"].val}
  /\ runs["custom_voice"] = 1

\* C4: load_model with a model_type the active profile does not define
\* raises the configuration error (ValueError, line 104) and leaves the cache
\* as it is, whatever the cache holds.
C4_UndefinedRoleRaises ==
  [][\A t \in Threads, mt \in ModelTypes, force \in BOOLEAN :
       (LoadModelCall(t, mt, force) /\ ~RoleDefined(model_size, mt))
         => (ret'[t] = Raise("ValueError", 104) /\ models' = models)]_vars

\* C5: a from_pretrained that fails inside load_model or load_tokenizer ends
\* the call with the loader's exception and leaves the cache as it was (under
\* force_reload the previous handle stays cached); nothing of the failure is
\* remembered: a later call that does not hit the cache goes to
\* from_pretrained again.
C5_FailureLeavesCache ==
  [][\A t \in Threads :
       /\ ((LoadModelFromPretrained(t) \/ LoadTokenizerFromPretrained(t)) /\ ret'[t].kind = "raise")
            => (models' = models /\ ret'[t].exc \in LoaderErrors /\ pc'[t] = "idle")
       /\ \A mt \in ModelTypes, force \in BOOLEAN :
            LoadModelCall(t, mt, force) =>
              /\ models' = models
              /\ (RoleDefined(model_size, mt) /\ ~(Cached(models, mt) /\ ~force))
                   => pc'[t] = "lm_resolved"
       /\ \A force \in BOOLEAN :
            LoadTokenizerCall(t, force) =>
              /\ models' = models
              /\ ~(Cached(models, "tokenizer") /\ ~force) => pc'[t] = "tk_resolved"]_vars

\* A forced reload of custom_voice has failed at line 142 and the handle
\* cached before it is still the one cached.
C5_Witness ==
  /\ ret["loop"].kind = "raise"
  /\ ret["loop"].line = 142
  /\ Cached(models, "custom_voice")
  /\ models["custom_voice"].id = 1

\* C6: set_model_size(new) with new different from the active size ends with
\* no model entry in the cache and new as the active size; the next
\* load_model(r) of every role r does not hit the cache and calls
\* from_pretrained with the identifier size new maps r to.
C6_SwitchReloads ==
  /\ [][\A t \in Threads :
          SetModelSizeAssign(t) =>
            /\ model_size' = call[t].arg
            /\ model_size' /= model_size
            /\ (DOMAIN models') \cap Roles = {}
            /\ pendingReload' = Roles]_vars
  /\ [](\A t \in Threads :
          /\ pc[t] = "lm_hit" => call[t].arg \notin pendingReload
          /\ (pc[t] \in {"lm_resolved", "lm_loaded"} /\ call[t].arg \in pendingReload)
               => local[t].model_id = MODEL_SIZES[model_size][call[t].arg]
          /\ (pc[t] = "lm_loaded" /\ call[t].arg \in pendingReload)
               => local[t].h.model_id = MODEL_SIZES[model_size][call[t].arg])

\* custom_voice was cached under 1.7B, the size was switched to 0.6B, and the
\* next load_model("custom_voice") has loaded the 0.6B checkpoint.
C6_Witness ==
  /\ model_size = "0.6B"
  /\ "voice_clone" \in pendingReload
  /\ "custom_voice" \notin pendingReload
  /\ Cached(models, "custom_voice")
  /\ models["custom_voice"] = [id |-> 2, model_id |-> "Qwen/Qwen3-TTS-12Hz-0.6B-CustomVoice", eval |-> TRUE]

\* C7: set_model_size(new) with new different from the active size keeps a
\* cached tokenizer: it is still cached, and the same handle.
C7_SwitchKeepsTokenizer ==
  [][\A t \in Threads, size \in SizeArgs :
       (SetModelSizeCall(t, size) /\ SizeKnown(size) /\ size /= model_size
          /\ Cached(models, "tokenizer"))
         => (Cached(models', "tokenizer") /\ models'["tokenizer"] = models["tokenizer"])]_vars

\* C8: every model handle cached under a role was loaded from the identifier
\* the active size maps the role to.
C8_NoStaleBinding ==
  \A r \in (DOMAIN models) \cap Roles : models[r].model_id = MODEL_SIZES[model_size][r]

\* C9: unload_model(mt) removes the entry of mt if there is one, leaves every
\* other entry and the active size as they are, and returns without an error
\* whether or not mt was cached.
C9_UnloadFrame ==
  [][\A t \in Threads, mt \in ModelTypes :
       UnloadModel(t, mt) =>
         /\ DOMAIN models' = (DOMAIN models) \ {mt}
         /\ \A k \in DOMAIN models' : models'[k] = models[k]
         /\ model_size' = model_size
         /\ ret'[t].kind = "return"]_vars

\* unload_model has removed an entry and another entry is still cached.
C9_Witness ==
  /\ ret["loop"].kind = "return"
  /\ ret["loop"].line = 216
  /\ DOMAIN models = {"tokenizer", "voice_clone"}

\* C10: clear_cache() leaves no entry, model or tokenizer, in the cache, keeps
\* the active size, and calls torch.cuda.empty_cache() exactly when CUDA is
\* available.
C10_ClearCache ==
  [][\A t \in Threads :
       ClearCache(t) =>
         /\ DOMAIN models' = {}
         /\ model_size' = model_size
         /\ ret'[t].emptied = cuda]_vars

\* clear_cache has run on a CUDA device after a model and the tokenizer were
\* loaded.
C10_Witness ==
  /\ ret["loop"].kind = "return"
  /\ ret["loop"].line = 223
  /\ ret["loop"].emptied
  /\ DOMAIN models = {}
  /\ nextId > 1
  /\ nextTokId > 1

\* C11: get_model_info() changes neither the cache nor the active size, and
\* the loaded models it reports are exactly the keys of the cache at the
\* moment of the call.
C11_ModelInfoReadOnly ==
  [][\A t \in Threads :
       GetModelInfo(t) =>
         /\ models' = models
         /\ model_size' = model_size
         /\ ret'[t].kind = "return"
         /\ ret'[t].info.loaded_models = DOMAIN models
         /\ ret'[t].info.model_size = model_size]_vars

\* get_model_info() has reported a model and the tokenizer, after a profile
\* switch had emptied the cache.
C11_Witness ==
  /\ ret["loop"].line = 191
  /\ ret["loop"].info.loaded_models = {"custom_voice", "tokenizer"}
  /\ DOMAIN models = {"custom_voice", "tokenizer"}
  /\ "voice_clone" \in pendingReload

\* C12: a from_pretrained that fails in the pre-warm task ends the task and
\* nothing else: the cache, the requests and the event-loop thread are as they
\* were.  A handler that calls load_model after the pre-warm failed, for a role
\* that is not cached, makes its own load attempt: its call goes on to
\* from_pretrained with no outcome set.
C12_PrewarmFailureNotFatal ==
  [][/\ ((LoadTokenizerFromPretrained("worker") \/ LoadModelFromPretrained("worker"))
          /\ ret'["worker"].kind = "raise")
         => /\ models' = models
            /\ pc'["worker"] = "idle"
            /\ req' = req
            /\ health' = health
            /\ pc'["loop"] = pc["loop"]
            /\ ret'["loop"] = ret["loop"]
     /\ \A q \in 1..MaxRequests :
          (HandlerLoad(q) /\ ret["worker"].kind = "raise" /\ ~Cached(models, req[q].endpoint))
            => (pc'["loop"] = "lm_resolved" /\ ret'["loop"] = NoRet)]_vars

\* The pre-warm load of custom_voice failed, and a custom-voice request made
\* afterwards loaded the model itself and was answered with 200.
C12_Witness ==
  /\ ret["worker"].kind = "raise"
  /\ ret["worker"].line = 142
  /\ req[1].endpoint = "custom_voice"
  /\ req[1].status = 200
  /\ Cached(models, "custom_voice")
  /\ models["custom_voice"].id = 2

\* C13: the event-loop thread is never inside load_model, and a health
\* request that waits while a synthesis request is loading or generating can
\* be answered at once, without the synthesis request going on first.
C13_LoopNotBlocked ==
  /\ pc["loop"] \notin {"lm_hit", "lm_resolved", "lm_loaded"}
  /\ (health = "waiting" /\ \E q \in 1..MaxRequests : req[q].stage \in {"loading", "generating"})
       => ENABLED HealthCheck

\* C14: no two requests are inside generate with the same model handle.
C14_ExclusiveHandleUse ==
  \A q1, q2 \in 1..MaxRequests :
    (q1 /= q2 /\ req[q1].stage = "generating" /\ req[q2].stage = "generating")
      => req[q1].h /= req[q2].h

\* A request is inside generate with the cached custom_voice handle while a
\* second custom-voice request is waiting to run and the pre-warm is loading.
C14_Witness ==
  /\ req[1].stage = "generating"
  /\ req[1].endpoint = "custom_voice"
  /\ req[1].h = models["custom_voice"]
  /\ req[2].stage = "queued"
  /\ req[2].endpoint = "custom_voice"
  /\ pc["worker"] = "lm_resolved"

\* C15: a request whose load_model call ended with the exception of
\* from_pretrained (re-raised at line 142) is answered with 500.
C15_LoadFailureIs500 ==
  \A q \in 1..MaxRequests :
    (req[q].stage = "done" /\ req[q].line = 142) => req[q].status = 500

\* C16: get_available_memory_gb() returns total - (reserved + allocated), in
\* GB and floored at zero, when CUDA is available and 0 when it is not; the
\* result is never negative.
C16_AvailableMemory ==
  memory_gb.called =>
    /\ memory_gb.gb >= 0
    /\ ~cuda => memory_gb.gb = 0
    /\ cuda => LET free == gpu.total - (gpu.reserved + gpu.allocated) IN
                 memory_gb.gb = IF free > 0 THEN ToGB(free) ELSE 0

\* The counters of a CUDA device add up to more than its total memory and
\* the result is 0.
C16_Witness ==
  /\ memory_gb.called
  /\ cuda
  /\ gpu.reserved + gpu.allocated > gpu.total
  /\ memory_gb.gb = 0

\* C17: whatever the kind of source, the array load_audio returns is
\* one-dimensional; for a source of shape (frames, channels), and unless the
\* audio was resampled, it has the same number of frames and each sample is
\* the mean of the channels of its frame.
C17_DecodeMono ==
  loaded.kind = "return" =>
    LET input == Source(load_args).audio IN
      /\ loaded.audio.ndim = 1
      /\ \A i \in 1..Len(loaded.audio.rows) : Len(loaded.audio.rows[i]) = 1
      /\ (input.ndim = 2 /\ loaded.sr = Source(load_args).sr) =>
           /\ Len(loaded.audio.rows) = Len(input.rows)
           /\ \A i \in 1..Len(input.rows) :
                loaded.audio.rows[i][1] * Len(input.rows[i]) = Sum(input.rows[i])

\* The buffer [[1,3],[1,-1]] read from a WAV byte string has been decoded to
\* [2,0].
C17_Witness ==
  /\ load_args.kind = "bytes"
  /\ load_args.file.rows = << <<1 * Resolution, 3 * Resolution>>, <<1 * Resolution, -1 * Resolution>> >>
  /\ loaded.kind = "return"
  /\ loaded.audio = Array(1, << <<2 * Resolution>>, <<0>> >>)

\* C18: round trip.  load_audio, with no target rate, of the bytes that
\* save_audio returned for a one-dimensional buffer, format wav and no
\* destination, returns a buffer with the number of samples and the sample
\* rate of the original.
C18_RoundTrip ==
  (/\ loaded.kind /= "none"
   /\ save_args.audio_data.ndim = 1
   /\ Lower(save_args.format) = "wav"
   /\ save_args.output_path = NoPath)
    => /\ loaded.kind = "return"
       /\ Len(loaded.audio.rows) = Len(save_args.audio_data.rows)
       /\ loaded.sr = save_args.sample_rate

\* A buffer of MaxFrames samples at 16000 Hz has been encoded to wav bytes and
\* decoded again.
C18_Witness ==
  /\ save_args.audio_data.ndim = 1
  /\ Len(save_args.audio_data.rows) = MaxFrames
  /\ save_args.sample_rate = 16000
  /\ save_args.format = "wav"
  /\ saved.bytes.container = "WAV"
  /\ load_args.kind = "bytes"
  /\ loaded.kind = "return"
  /\ Len(loaded.audio.rows) = MaxFrames

\* C19 as stated: save_audio with a format that is none of wav, mp3, ogg
\* raises the ValueError of line 41, which lists the supported formats,
\* with no temporary file created and no destination written.
C19_UnsupportedFormatRaises ==
  (saved.kind /= "none" /\ save_args.format \notin SUPPORTED_FORMATS)
    => (saved = CodecError("ValueError", 41, SUPPORTED_FORMATS) /\ files = NoFiles)

\* C19 as amended: the same for a format whose lower-cased name is none of
\* wav, mp3, ogg; a supported name written in capitals is accepted.
C19_UnsupportedLowerCasedFormatRaises ==
  /\ (saved.kind /= "none" /\ Lower(save_args.format) \notin SUPPORTED_FORMATS)
       => (saved = CodecError("ValueError", 41, SUPPORTED_FORMATS) /\ files = NoFiles)
  /\ (saved.kind /= "none" /\ Lower(save_args.format) \in SUPPORTED_FORMATS)
       => saved.kind = "return"

\* save_audio has been called with format flac and a destination, with pydub
\* installed, and has raised; nothing was written.
C19_Witness ==
  /\ save_args.format = "flac"
  /\ save_args.output_path = "out.wav"
  /\ deps.pydub
  /\ saved.kind = "raise"
  /\ saved.names = {"wav", "mp3", "ogg"}
  /\ files = NoFiles

\* C20: save_audio with format mp3 or ogg while pydub cannot be imported
\* returns, and leaves the files, exactly as the call with format wav and the
\* same other arguments does: wav bytes when there is no destination, the
\* destination path otherwise; it raises nothing and creates no temporary file.
C20_LossyFallsBackToWav ==
  (saved.kind /= "none" /\ Lower(save_args.format) \in {"mp3", "ogg"} /\ ~deps.pydub)
    => LET wav == SaveAudio([save_args EXCEPT !.format = "wav"], deps, NoFiles) IN
         /\ saved = wav.res
         /\ files = wav.fs
         /\ saved.kind = "return"
         /\ files.temp = 0
         /\ save_args.output_path = NoPath => (saved.path = NoPath /\ saved.bytes.container = "WAV")
         /\ save_args.output_path /= NoPath =>
              (saved.path = save_args.output_path /\ DOMAIN files.written = {save_args.output_path})

\* save_audio has been called with format mp3 and a destination, without
\* pydub, and has written the destination and returned its path.
C20_Witness ==
  /\ save_args.format = "mp3"
  /\ ~deps.pydub
  /\ save_args.output_path = "out.wav"
  /\ saved.kind = "return"
  /\ saved.path = "out.wav"
  /\ files.written["out.wav"].container = "WAV"

\* C21: validate_audio_duration returns true exactly when the number of
\* samples divided by the sample rate is at least the minimum; with a minimum
\* of 1.0 it is false for half a second of audio and true for exactly
\* sample_rate samples, at every sample rate.
C21_ValidateMinDuration ==
  validated.kind = "return" =>
    LET n == validate_args.len
        sr == validate_args.sample_rate
        m == validate_args.min_duration
    IN /\ validated.is_valid <=> (n * m.den >= m.num * sr)
       /\ (m = Seconds(1, 1) /\ 2 * n = sr) => ~validated.is_valid
       /\ (m = Seconds(1, 1) /\ n = sr) => validated.is_valid

\* A buffer of exactly one second at the highest rate has passed the check
\* against 1.0.
C21_Witness ==
  /\ validated.kind = "return"
  /\ validated.is_valid
  /\ validate_args = [len |-> MaxRate, sample_rate |-> MaxRate, min_duration |-> Seconds(1, 1)]

\* C22: load_model(r, force_reload=True) on a cached role r does not take the
\* cached handle but goes to from_pretrained; when the load succeeds, the
\* handle it built, which is none of the cached ones, becomes the entry of r
\* and the value returned, and every other entry stays as it is.
C22_ForcedReloadReplaces ==
  [][\A t \in Threads :
       /\ \A r \in Roles :
            (LoadModelCall(t, r, TRUE) /\ Cached(models, r))
              => (pc'[t] = "lm_resolved" /\ models' = models)
       /\ (LoadModelFromPretrained(t) /\ call[t].force /\ pc'[t] = "lm_loaded")
            => \A k \in DOMAIN models : models[k] /= local'[t].h
       /\ (LoadModelInsert(t) /\ call[t].force)
            => LET r == call[t].arg IN
                 /\ DOMAIN models' = (DOMAIN models) \cup {r}
                 /\ models'[r] = local[t].h
                 /\ ret'[t] = Return(local[t].h, 139)
                 /\ \A k \in DOMAIN models : models[k] /= models'[r]
                 /\ \A k \in (DOMAIN models) \ {r} : models'[k] = models[k]]_vars

\* A forced reload of the cached custom_voice has built a second handle, next
\* to a cached tokenizer, and is about to replace the first.
C22_Witness ==
  /\ pc["loop"] = "lm_loaded"
  /\ call["loop"] = [op |-> "load_model", arg |-> "custom_voice", force |-> TRUE]
  /\ Cached(models, "tokenizer")
  /\ Cached(models, "custom_voice")
  /\ models["custom_voice"].id = 1
  /\ local["loop"].h.id = 2

\* C23: the tokenizer is kept apart from the models.  Whatever model_type is
\* passed, load_model neither returns nor replaces the cached tokenizer and
\* unload_model does not evict it; load_tokenizer changes no model entry.
C23_TokenizerKeyedApart ==
  [][\A t \in Threads :
       /\ ((LoadModelReturnCached(t) \/ LoadModelInsert(t)) /\ Cached(models, "tokenizer"))
            => /\ ret'[t].val /= models["tokenizer"]
               /\ Cached(models', "tokenizer")
               /\ models'["tokenizer"] = models["tokenizer"]
       /\ \A mt \in ModelTypes :
            (UnloadModel(t, mt) /\ Cached(models, "tokenizer"))
              => (Cached(models', "tokenizer") /\ models'["tokenizer"] = models["tokenizer"])
       /\ (LoadTokenizerReturnCached(t) \/ LoadTokenizerFromPretrained(t))
            => /\ (DOMAIN models') \cap Roles = (DOMAIN models) \cap Roles
               /\ \A r \in (DOMAIN models) \cap Roles : models'[r] = models[r]]_vars

\* C24: every model cached under a role, every model load_model has handed
\* to a caller and every model about to be inserted is in eval mode.
C24_CachedModelsInEvalMode ==
  /\ \A r \in (DOMAIN models) \cap Roles : models[r].eval
  /\ \A r \in Roles : \A h \in handed[r] : h.eval
  /\ \A t \in Threads : pc[t] = "lm_loaded" => local[t].h.eval

\* The pre-warm has cached custom_voice and a request's load_model call has
\* been handed the same model, in eval mode.
C24_Witness ==
  /\ ret["worker"].line = 139
  /\ ret["loop"].line = 101
  /\ Cached(models, "custom_voice")
  /\ models["custom_voice"].eval
  /\ ret["loop"].val = models["custom_voice"]
  /\ handed["custom_voice"] = {models["custom_voice"]}

\* C25: set_model_size with a size that is no key of MODEL_SIZES raises
\* ValueError and leaves the active size and the cache as they are;
\* set_model_size with the active size returns and changes neither.
C25_SetModelSizeRejects ==
  [][\A t \in Threads, size \in SizeArgs :
       (SetModelSizeCall(t, size) /\ (size \notin Sizes \/ size = model_size))
         => /\ models' = models
            /\ model_size' = model_size
            /\ pc'[t] = "idle"
            /\ ret'[t] = IF size \notin Sizes
                         THEN Raise("ValueError", 201) ELSE Return(NoHandle, 203)]_vars

\* set_model_size has refused an unknown size while a model and the
\* tokenizer were cached.
C25_Witness ==
  /\ ret["loop"] = Raise("ValueError", 201)
  /\ DOMAIN models = {"custom_voice", "tokenizer"}

\* C26: once shutdown_event has returned, the cache is empty and stays
\* empty.
C26_EmptyAfterShutdown == shutdown => DOMAIN models = {}

\* C27: a voice-clone request whose reference audio decodes to less than one
\* second is answered with 400 by the step that reads it, a step that calls
\* nothing of the manager and leaves the cache as it is; no such request is
\* ever loading or generating.
C27_ShortReferenceRejectedBeforeLoad ==
  /\ [][\A q \in 1..MaxRequests :
          (HandlerAfterRead(q) /\ req'[q].upload.container = "WAV"
             /\ Len(req'[q].upload.rows) < req'[q].upload.samplerate)
            => /\ req'[q].stage = "done"
               /\ req'[q].status = 400
               /\ req'[q].line = 288
               /\ manager' = manager]_vars
  /\ [](\A q \in 1..MaxRequests :
          (req[q].upload.container = "WAV"
             /\ Len(req[q].upload.rows) < req[q].upload.samplerate)
            => (req[q].stage = "done" /\ req[q].status = 400))

\* A voice-clone request with half a second of reference audio has been
\* refused while the pre-warm was loading custom_voice, and nothing but the
\* tokenizer is cached.
C27_Witness ==
  /\ req[1].endpoint = "voice_clone"
  /\ req[1].stage = "done"
  /\ req[1].status = 400
  /\ req[1].line = 288
  /\ Len(req[1].upload.rows) = 1
  /\ req[1].upload.samplerate = 2
  /\ pc["worker"] = "lm_resolved"
  /\ DOMAIN models = {"tokenizer"}
  /\ nextId = 1

\* C28: the active size is a key of MODEL_SIZES in every state, from the
\* construction of the manager on, and neither load_model nor
\* get_model_info fails to find the active profile.
C28_ActiveProfileAvailable ==
  /\ model_size \in Sizes
  /\ \A t \in Threads : ~(ret[t].kind = "raise" /\ ret[t].exc = "KeyError" /\ ret[t].line \in {103, 188})

\* C29: on a host without CUDA, whichever of the tuning calls fail, the
\* construction of the manager ends without an exception.
C29_TuningFailuresSwallowed ==
  (constructed.kind /= "none" /\ ~cuda) => constructed.kind = "return"

====
